---- MODULE Spec2Model ----
(***************************************************************************)
(* Model of midicontroller.py: the Controller state machine that turns     *)
(* key-down / key-up events into MIDI note-on / note-off messages, and the *)
(* event loop (mainloop) that feeds it.                                    *)
(*                                                                         *)
(* The MIDI output (rtmidi.MidiOut) is modelled as a recorder: every       *)
(* send_message call appends the message to the list of messages sent by   *)
(* the handler that is running.                                            *)
(***************************************************************************)
EXTENDS Integers, Sequences, FiniteSets, TLC

(***************************************************************************)
(* Bounds of the model.                                                    *)
(***************************************************************************)
\* number of input events delivered to the event loop in one run
MaxEvents == 4

(***************************************************************************)
(* Program constants.                                                      *)
(***************************************************************************)
NOTE_ON == 144
NOTE_OFF == 128
\* pygame.KMOD_SHIFT = KMOD_LSHIFT | KMOD_RSHIFT
KMOD_SHIFT == 3
KMOD_NONE == 0
KMOD_LSHIFT == 1
TRANSPOSE_RANGE == <<0 - 55, 127 - 55>>
VELOCITY_RANGE == <<0, 127>>
\* step of the velocity keys
VELOCITY_STEP == 8
\* _release: for note in range(0, 127)
RELEASE_START == 0
RELEASE_STOP == 127

LAYOUT_FOURTHS == [name |-> "FOURTHS", mapping |->
     "K_z" :> 55 @@ "K_x" :> 56 @@ "K_c" :> 57 @@ "K_v" :> 58 @@ "K_b" :> 59
  @@ "K_n" :> 60 @@ "K_m" :> 61 @@ "K_COMMA" :> 62 @@ "K_PERIOD" :> 63
  @@ "K_SLASH" :> 64
  @@ "K_a" :> 60 @@ "K_s" :> 61 @@ "K_d" :> 62 @@ "K_f" :> 63 @@ "K_g" :> 64
  @@ "K_h" :> 65 @@ "K_j" :> 66 @@ "K_k" :> 67 @@ "K_l" :> 68
  @@ "K_SEMICOLON" :> 69 @@ "K_QUOTE" :> 70
  @@ "K_q" :> 65 @@ "K_w" :> 66 @@ "K_e" :> 67 @@ "K_r" :> 68 @@ "K_t" :> 69
  @@ "K_y" :> 70 @@ "K_u" :> 71 @@ "K_i" :> 72 @@ "K_o" :> 73 @@ "K_p" :> 74
  @@ "K_LEFTBRACKET" :> 75 @@ "K_RIGHTBRACKET" :> 76 @@ "K_BACKSLASH" :> 77
  @@ "K_1" :> 70 @@ "K_2" :> 71 @@ "K_3" :> 72 @@ "K_4" :> 73 @@ "K_5" :> 74
  @@ "K_6" :> 75 @@ "K_7" :> 76 @@ "K_8" :> 77 @@ "K_9" :> 78 @@ "K_0" :> 79
  @@ "K_MINUS" :> 80 @@ "K_EQUALS" :> 81]

LAYOUT_JANKO == [name |-> "JANKO", mapping |->
     "K_z" :> 55 @@ "K_x" :> 57 @@ "K_c" :> 59 @@ "K_v" :> 61 @@ "K_b" :> 63
  @@ "K_n" :> 65 @@ "K_m" :> 67 @@ "K_COMMA" :> 69 @@ "K_PERIOD" :> 71
  @@ "K_SLASH" :> 73
  @@ "K_a" :> 54 @@ "K_s" :> 56 @@ "K_d" :> 58 @@ "K_f" :> 60 @@ "K_g" :> 62
  @@ "K_h" :> 64 @@ "K_j" :> 66 @@ "K_k" :> 68 @@ "K_l" :> 70
  @@ "K_SEMICOLON" :> 72 @@ "K_QUOTE" :> 74
  @@ "K_q" :> 53 @@ "K_w" :> 55 @@ "K_e" :> 57 @@ "K_r" :> 59 @@ "K_t" :> 61
  @@ "K_y" :> 63 @@ "K_u" :> 65 @@ "K_i" :> 67 @@ "K_o" :> 69 @@ "K_p" :> 71
  @@ "K_LEFTBRACKET" :> 73 @@ "K_RIGHTBRACKET" :> 75 @@ "K_BACKSLASH" :> 77
  @@ "K_1" :> 52 @@ "K_2" :> 54 @@ "K_3" :> 56 @@ "K_4" :> 58 @@ "K_5" :> 60
  @@ "K_6" :> 62 @@ "K_7" :> 64 @@ "K_8" :> 66 @@ "K_9" :> 68 @@ "K_0" :> 70
  @@ "K_MINUS" :> 72 @@ "K_EQUALS" :> 74]

\* Controller.__init__: self.layouts (0-based list, kept 0-based here)
layouts == [i \in 0..1 |-> IF i = 0 THEN LAYOUT_FOURTHS ELSE LAYOUT_JANKO]

NumLayouts == Cardinality(DOMAIN layouts)

(***************************************************************************)
(* Inputs: the keys and modifier masks the input collaborator delivers.    *)
(* K_F1 stands for a key bound to nothing.                                 *)
(***************************************************************************)
Keys == {"K_a", "K_n", "K_0", "K_j",
         "K_UP", "K_DOWN", "K_LEFT", "K_RIGHT", "K_TAB", "K_ESCAPE", "K_F1"}

Modifiers == {KMOD_NONE, KMOD_LSHIFT}

\* the key-down events delivered: every key without a modifier, and with
\* shift the keys whose handling reads the modifier, and one note key
KeyDownInputs ==
  (Keys \X {KMOD_NONE})
  \cup ({"K_j", "K_LEFT", "K_RIGHT", "K_a"} \X {KMOD_LSHIFT})

\* <<transpose, velocity>> at the start of a run: the values set by
\* Controller.__init__, and values the transpose and velocity keys lead to
\* from there while notes is still empty (4 times shift+K_RIGHT; 5 times
\* shift+K_LEFT and 14 times K_DOWN)
Starts == {<<0, 112>>, <<48, 112>>, <<0 - 55, 0>>}

VARIABLES
  notes,           \* Controller.notes
  transpose,       \* Controller.transpose
  velocity,        \* Controller.velocity
  sustain,         \* Controller.sustain
  current_layout,  \* Controller.current_layout
  running,         \* mainloop: running
  out,             \* messages sent to midiout by the last handler, in order
  event,           \* the last event taken from pygame.event.get()
  sounding,        \* the output device: notes switched on and not off since
  held,            \* pairs <<key, note>>: the note the last key-down of a
                   \* key that is still down switched on
  scenario,        \* the run of events in progress: a note key-down
                   \* ("down"), then the key-up of the same key ("up"), then
                   \* the sustain toggle going off ("off"), each immediately
                   \* after the other; with the note switched on, notes
                   \* before the key-down and sustain during the pair
  display_data,    \* mainloop: display_data; its notes field holds a
                   \* reference to a set object, the other fields values
  steady,          \* no step so far has changed transpose or the layout or
                   \* has left sustain on
  pressed,         \* while steady: the keys whose key-down switched a note on
  nevents          \* events still to be delivered

vars == <<notes, transpose, velocity, sustain, current_layout, running,
          out, event, sounding, held, scenario, display_data, steady,
          pressed, nevents>>

(***************************************************************************)
(* utils                                                                   *)
(***************************************************************************)
\* clamp without its lower bound
clamp_nomin(val, min, max) ==
  IF val > max THEN max ELSE val

clamp(val, min, max) ==
  IF val > max THEN max
  ELSE IF val < min THEN min
  ELSE val

\* modifiers & mask for a mask of the form 2^n - 1
BitAndLow(modifiers, mask) == modifiers % (mask + 1)

(***************************************************************************)
(* midiout                                                                 *)
(***************************************************************************)
midiout_on(s, note, vel) ==
  [s EXCEPT !.sent = Append(@, <<NOTE_ON, note, vel>>)]

midiout_off(s, note) ==
  [s EXCEPT !.sent = Append(@, <<NOTE_OFF, note, 0>>)]

(***************************************************************************)
(* Controller.  s is the Controller object together with the messages the  *)
(* running handler has sent so far (s.sent).                               *)
(***************************************************************************)
layout(s) == layouts[s.current_layout]

base_note(s) == layout(s).mapping

_key_is_note(s, key) == key \in DOMAIN base_note(s)

\* _note_from_key that leaves transpose out
_note_from_key_base(s, key) == base_note(s)[key]

_note_from_key(s, key) == base_note(s)[key] + s.transpose

_note_on(s, note) ==
  [midiout_on(s, note, s.velocity) EXCEPT !.notes = @ \cup {note}]

\* _note_off that sends the message and keeps the note in notes
_note_off_keeps(s, note) == midiout_off(s, note)

\* _note_off that sends the message only for a note that is in notes
_note_off_present(s, note) ==
  IF note \in s.notes
  THEN [midiout_off(s, note) EXCEPT !.notes = @ \ {note}]
  ELSE s

_note_off(s, note) ==
  LET t == midiout_off(s, note)
  IN  IF note \in t.notes THEN [t EXCEPT !.notes = @ \ {note}] ELSE t

\* _release that also switches sustain off
_release_unsustains(s) ==
  LET count == RELEASE_STOP - RELEASE_START
  IN  [s EXCEPT
         !.sent = @ \o [i \in 1..count |->
                          <<NOTE_OFF, RELEASE_START + i - 1, 0>>],
         !.notes = @ \ (RELEASE_START..(RELEASE_STOP - 1)),
         !.sustain = FALSE]

\* for note in range(0, 127): self._note_off(note)
\* The loop is unrolled: iteration i sends the note-off of note
\* RELEASE_START + i - 1 and removes that note from notes if it is there.
_release(s) ==
  LET count == RELEASE_STOP - RELEASE_START
      swept == [i \in 1..count |-> RELEASE_START + i - 1]
  IN  [s EXCEPT
         !.sent = @ \o [i \in 1..count |-> <<NOTE_OFF, swept[i], 0>>],
         !.notes = @ \ {swept[i] : i \in 1..count}]

_next_layout(s) ==
  [s EXCEPT !.current_layout = (s.current_layout + 1) % NumLayouts]

\* handle_keyup that releases under sustain instead of without it
handle_keyup_sustained(s, key) ==
  IF _key_is_note(s, key) /\ s.sustain
  THEN _note_off(s, _note_from_key(s, key))
  ELSE s

handle_keyup(s, key) ==
  IF _key_is_note(s, key) /\ ~s.sustain
  THEN _note_off(s, _note_from_key(s, key))
  ELSE s

\* transpose_delta that ignores the modifier
transpose_delta_small(modifiers) == 1

transpose_delta(modifiers) ==
  IF BitAndLow(modifiers, KMOD_SHIFT) # 0 THEN 12 ELSE 1

velocity_up(s) ==
  [s EXCEPT !.velocity =
     clamp(s.velocity + VELOCITY_STEP, VELOCITY_RANGE[1], VELOCITY_RANGE[2])]

velocity_down(s) ==
  [s EXCEPT !.velocity =
     clamp(s.velocity - VELOCITY_STEP, VELOCITY_RANGE[1], VELOCITY_RANGE[2])]

transpose_left(s, modifiers) ==
  [s EXCEPT !.transpose =
     clamp(s.transpose - transpose_delta(modifiers),
           TRANSPOSE_RANGE[1], TRANSPOSE_RANGE[2])]

transpose_right(s, modifiers) ==
  [s EXCEPT !.transpose =
     clamp(s.transpose + transpose_delta(modifiers),
           TRANSPOSE_RANGE[1], TRANSPOSE_RANGE[2])]

\* toggle_sustain that releases when sustain goes on
toggle_sustain_inverted(s) ==
  LET t == [s EXCEPT !.sustain = ~s.sustain]
  IN  IF t.sustain THEN _release(t) ELSE t

toggle_sustain(s) ==
  LET t == [s EXCEPT !.sustain = ~s.sustain]
  IN  IF ~t.sustain THEN _release(t) ELSE t

handle_keydown(s, key, modifiers) ==
  IF BitAndLow(modifiers, KMOD_SHIFT) # 0 /\ key = "K_j" THEN _next_layout(s)
  ELSE IF _key_is_note(s, key) THEN _note_on(s, _note_from_key(s, key))
  ELSE IF key = "K_UP" THEN velocity_up(s)
  ELSE IF key = "K_DOWN" THEN velocity_down(s)
  ELSE IF key = "K_LEFT" THEN transpose_left(s, modifiers)
  ELSE IF key = "K_RIGHT" THEN transpose_right(s, modifiers)
  ELSE IF key = "K_TAB" THEN toggle_sustain(s)
  ELSE IF key = "K_ESCAPE" THEN _release(s)
  ELSE s

(***************************************************************************)
(* The output device: what a list of messages does to the set of notes     *)
(* that are switched on.                                                   *)
(***************************************************************************)
Deliver(on, msgs) ==
  LET ons == {i \in DOMAIN msgs : msgs[i][1] = NOTE_ON}
      touched == {msgs[i][2] : i \in DOMAIN msgs}
      \* the last message about note n is a note-on
      endsOn(n) == \E i \in ons :
                     /\ msgs[i][2] = n
                     /\ \A j \in DOMAIN msgs : j > i => msgs[j][2] # n
  IN  IF ons = {} THEN on \ touched
      ELSE (on \ touched) \cup {n \in touched : endsOn(n)}

(***************************************************************************)
(* mainloop                                                                *)
(***************************************************************************)
\* the Controller object as the handlers see it, nothing sent yet
Self ==
  [notes |-> notes, transpose |-> transpose, velocity |-> velocity,
   sustain |-> sustain, current_layout |-> current_layout, sent |-> <<>>]

\* store the Controller object a handler returns
Store(s) ==
  /\ notes' = s.notes
  /\ transpose' = s.transpose
  /\ velocity' = s.velocity
  /\ sustain' = s.sustain
  /\ current_layout' = s.current_layout
  /\ out' = s.sent
  /\ sounding' = Deliver(sounding, s.sent)

(***************************************************************************)
(* DisplayData.  The set objects of the program are the one made by        *)
(* Controller.__init__ (self.notes = set()), which the handlers change in  *)
(* place and never replace, and the one made for DisplayData in mainloop,  *)
(* which stays empty.  A notes field is a reference to one of the two.     *)
(***************************************************************************)
SetOfController == "controller.notes"

SetOfDisplay == "set()"

\* the set a reference leads to, as it is now
Deref(ref) == IF ref = SetOfController THEN notes ELSE {}

\* DisplayData.update_from(controller), returning the updated object
update_from(d, s) ==
  [d EXCEPT !.notes = SetOfController,
            !.velocity = s.velocity,
            !.transpose = s.transpose,
            !.sustain = s.sustain,
            !.layout = layout(s).name]

\* the bookkeeping of steady and pressed for a step that leaves the
\* Controller as s and has switched a note on with key iff noteKey
Track(s, key, noteKey) ==
  LET still == /\ steady
               /\ s.transpose = transpose
               /\ s.current_layout = current_layout
               /\ ~s.sustain
  IN  /\ steady' = still
      /\ pressed' = IF ~still THEN {}
                    ELSE IF noteKey THEN pressed \cup {key}
                    ELSE pressed

\* Controller.__init__ and the locals of mainloop
Init ==
  /\ notes = {}
  /\ \E st \in Starts : transpose = st[1] /\ velocity = st[2]
  /\ sustain = FALSE
  /\ current_layout = 0
  /\ running = TRUE
  /\ out = <<>>
  /\ event = [type |-> "NONE", key |-> "", mod |-> KMOD_NONE]
  /\ sounding = {}
  /\ held = {}
  /\ scenario = {}
  /\ display_data = [notes |-> SetOfDisplay, velocity |-> 0, transpose |-> 0,
                     sustain |-> FALSE, layout |-> ""]
  /\ steady = TRUE
  /\ pressed = {}
  /\ nevents = MaxEvents

\* event.type == pygame.KEYDOWN
KeyDown ==
  \E in \in KeyDownInputs :
    LET key == in[1]
        mod == in[2]
        s == handle_keydown(Self, key, mod)
        isNote == Len(s.sent) = 1 /\ s.sent[1][1] = NOTE_ON
    IN  /\ running
        /\ nevents > 0
        /\ Store(s)
        /\ event' = [type |-> "KEYDOWN", key |-> key, mod |-> mod]
        /\ held' = IF isNote
                   THEN {p \in held : p[1] # key} \cup {<<key, s.sent[1][2]>>}
                   ELSE held
        /\ scenario' =
             IF isNote
             THEN {[stage |-> "down", key |-> key, note |-> s.sent[1][2],
                    before |-> notes, sus |-> sustain]}
             ELSE IF key = "K_TAB"
             THEN {[r EXCEPT !.stage = "off"] :
                     r \in {q \in scenario : q.stage = "up" /\ q.sus}}
             ELSE {}
        /\ Track(s, key, isNote)
        /\ nevents' = nevents - 1
        /\ UNCHANGED <<running, display_data>>

\* event.type == pygame.KEYUP
KeyUp ==
  \E key \in Keys :
    LET s == handle_keyup(Self, key)
    IN  /\ running
        /\ nevents > 0
        /\ Store(s)
        /\ event' = [type |-> "KEYUP", key |-> key, mod |-> KMOD_NONE]
        /\ held' = {p \in held : p[1] # key}
        /\ scenario' =
             {[r EXCEPT !.stage = "up"] :
                r \in {q \in scenario : q.stage = "down" /\ q.key = key}}
        /\ Track(s, key, FALSE)
        /\ nevents' = nevents - 1
        /\ UNCHANGED <<running, display_data>>

\* the events of one pass of the while loop are done:
\* display_data.update_from(controller); update_screen(screen, display_data)
UpdateFrom ==
  /\ running
  /\ display_data' = update_from(display_data, Self)
  /\ UNCHANGED <<notes, transpose, velocity, sustain, current_layout,
                 running, out, event, sounding, held, scenario, steady,
                 pressed, nevents>>

\* event.type == pygame.QUIT: running = False and break, then the rest of
\* the pass (update_from, update_screen); the loop ends, the with block
\* closes the port, pygame.quit() is called; no handler of the Controller
\* runs
Quit ==
  /\ running
  /\ nevents > 0
  /\ running' = FALSE
  /\ out' = <<>>
  /\ event' = [type |-> "QUIT", key |-> "", mod |-> KMOD_NONE]
  /\ scenario' = {}
  /\ display_data' = update_from(display_data, Self)
  /\ nevents' = nevents - 1
  /\ UNCHANGED <<notes, transpose, velocity, sustain, current_layout,
                 sounding, held, steady, pressed>>

\* a run whose events all come in one list of pygame.event.get()
Next == KeyDown \/ KeyUp \/ Quit

Spec == Init /\ [][Next]_vars

\* a run whose events come in lists of any length, the display being
\* updated after each list
NextDisplay == KeyDown \/ KeyUp \/ UpdateFrom \/ Quit

SpecDisplay == Init /\ [][NextDisplay]_vars

(***************************************************************************)
(* What the last step did.                                                 *)
(***************************************************************************)
IsKeyDown(key) == event.type = "KEYDOWN" /\ event.key = key

IsKeyUp(key) == event.type = "KEYUP" /\ event.key = key

Shifted == BitAndLow(event.mod, KMOD_SHIFT) # 0

\* the last handler ran Controller._release
ReleaseAllRan == IsKeyDown("K_ESCAPE") \/ (IsKeyDown("K_TAB") /\ ~sustain)

NoteOffs(n) == {i \in DOMAIN out : out[i] = <<NOTE_OFF, n, 0>>}

MidiNotes == 0..127

(***************************************************************************)
(* C1: a ReleaseAll sends exactly one note-off for every note number       *)
(* 0..127, sends nothing else, and leaves notes empty.                     *)
(***************************************************************************)
C1_ReleaseAllSweepsEveryNote ==
  ReleaseAllRan =>
    /\ \A n \in MidiNotes : Cardinality(NoteOffs(n)) = 1
    /\ Len(out) = Cardinality(MidiNotes)
    /\ notes = {}

(***************************************************************************)
(* C2: every note number in a message sent to the MIDI output lies in      *)
(* 0..127.                                                                 *)
(***************************************************************************)
C2_SentNotesInRange == \A i \in DOMAIN out : out[i][2] \in MidiNotes

(***************************************************************************)
(* C3: every element of notes lies in 0..127.                              *)
(***************************************************************************)
C3_ActiveNotesInRange == notes \subseteq MidiNotes

(***************************************************************************)
(* C4: notes is exactly the set of notes for which a note-on was sent and  *)
(* no note-off was sent since.                                             *)
(***************************************************************************)
C4_ActiveNotesAreSounding == notes = sounding

\* a key-up has switched one note off while another one stays on
C4_Witness ==
  /\ event.type = "KEYUP"
  /\ Len(out) = 1
  /\ out[1][2] \notin notes
  /\ notes # {}

(***************************************************************************)
(* C5: once the Quit event has ended the session, no note that was         *)
(* switched on is left without a note-off.                                 *)
(***************************************************************************)
C5_NoNoteStuckAfterQuit == ~running => sounding = {}

(***************************************************************************)
(* C6: with sustain off, a note key-down followed immediately by the       *)
(* key-up of the same key leaves notes as it was before the pair.          *)
(***************************************************************************)
C6_RoundTrip ==
  \A r \in scenario : (r.stage = "up" /\ ~r.sus) => notes = r.before

(***************************************************************************)
(* C6 as amended: with sustain off, a note key-down followed immediately   *)
(* by the key-up of the same key leaves notes as it was before the pair    *)
(* without the note of the key; so notes is as before the pair if and only *)
(* if that note was not in notes before the pair.                          *)
(***************************************************************************)
C6_RoundTripRemovesNote ==
  \A r \in scenario :
    (r.stage = "up" /\ ~r.sus) =>
      /\ r.note = layouts[current_layout].mapping[r.key] + transpose
      /\ notes = r.before \ {r.note}
      /\ (notes = r.before) <=> (r.note \notin r.before)

\* the pair has been played on a key whose note was already on
C6_Witness ==
  \E r \in scenario :
    r.stage = "up" /\ ~r.sus /\ r.note \in r.before /\ notes # r.before

(***************************************************************************)
(* C7: with sustain off, the key-up of a key that is down sends the        *)
(* note-off of the note that the key-down of that key switched on, also    *)
(* when transpose or the layout changed in between.                        *)
(***************************************************************************)
C7_KeyUpSilencesItsNote ==
  [][\A p \in held :
       (nevents' # nevents /\ event'.type = "KEYUP" /\ event'.key = p[1]
          /\ ~sustain)
       => out' = << <<NOTE_OFF, p[2], 0>> >>]_vars

(***************************************************************************)
(* C8: a note key pressed and released while sustain is on leaves its note *)
(* in notes with no note-off sent; when sustain is then toggled off, the   *)
(* note-off of that note is sent and the note leaves notes.                *)
(***************************************************************************)
C8_SustainScenario ==
  \A r \in scenario :
    /\ (r.stage = "up" /\ r.sus) => (r.note \in notes /\ out = <<>>)
    /\ r.stage = "off" => (r.note \notin notes /\ NoteOffs(r.note) # {})

(***************************************************************************)
(* C9: velocity stays in 0..127; the velocity-up key sets it to            *)
(* velocity + 8, or to 127 if that is more than 127, and the velocity-down *)
(* key to velocity - 8, or to 0 if that is less than 0.                    *)
(***************************************************************************)
C9_Velocity ==
  /\ velocity \in 0..127
  /\ [][/\ velocity' \in 0..127
        /\ (nevents' # nevents /\ IsKeyDown("K_UP")') =>
             velocity' = IF velocity + 8 > 127 THEN 127 ELSE velocity + 8
        /\ (nevents' # nevents /\ IsKeyDown("K_DOWN")') =>
             velocity' = IF velocity - 8 < 0 THEN 0 ELSE velocity - 8]_vars

\* the velocity-down key has been pressed at velocity 0
C9_Witness ==
  IsKeyDown("K_DOWN") /\ velocity = 0 /\ nevents = MaxEvents - 1

(***************************************************************************)
(* C10: transpose stays in -55..72; the transpose keys move it by 1        *)
(* without shift and by 12 with shift, down for left and up for right,     *)
(* and to the bound -55 or 72 where the move would pass it.                *)
(***************************************************************************)
C10_Transpose ==
  /\ transpose \in (0 - 55)..72
  /\ [][LET delta == IF Shifted' THEN 12 ELSE 1
        IN  /\ transpose' \in (0 - 55)..72
            /\ (nevents' # nevents /\ IsKeyDown("K_LEFT")') =>
                 transpose' = IF transpose - delta < 0 - 55 THEN 0 - 55
                              ELSE transpose - delta
            /\ (nevents' # nevents /\ IsKeyDown("K_RIGHT")') =>
                 transpose' = IF transpose + delta > 72 THEN 72
                              ELSE transpose + delta]_vars

\* shift + transpose-right has moved transpose by 12, from 48 to 60
C10_Witness ==
  /\ IsKeyDown("K_RIGHT")
  /\ Shifted
  /\ transpose = 60
  /\ nevents = MaxEvents - 1

(***************************************************************************)
(* More about the last step and the step being taken.                      *)
(***************************************************************************)
\* the step handles an event
Step == nevents' # nevents

\* the last event was the layout-cycle gesture
IsCycle == IsKeyDown("K_j") /\ Shifted

ActiveMapping == layouts[current_layout].mapping

\* the keys that have a function other than a note
ControlKeys ==
  {"K_UP", "K_DOWN", "K_LEFT", "K_RIGHT", "K_TAB", "K_ESCAPE", "K_j"}

(***************************************************************************)
(* C11: the layout-cycle gesture moves current_layout to the next layout,  *)
(* modulo the number of layouts, sends nothing and leaves notes,           *)
(* transpose, velocity and sustain alone; a ReleaseAll that follows it     *)
(* sends a note-off for every note that was in notes and empties notes.    *)
(***************************************************************************)
C11_CycleLayout ==
  [][Step =>
       /\ IsCycle' =>
            /\ current_layout' = (current_layout + 1) % NumLayouts
            /\ out' = <<>>
            /\ UNCHANGED <<notes, transpose, velocity, sustain>>
       /\ (IsCycle /\ ReleaseAllRan') =>
            /\ notes' = {}
            /\ \A n \in notes : NoteOffs(n)' # {}]_vars

(***************************************************************************)
(* C12: the key-up of a control key (velocity, transpose, sustain, escape, *)
(* layout-cycle key) sends nothing and changes no field of the Controller. *)
(***************************************************************************)
C12_ControlKeyUpIgnored ==
  [][(Step /\ event'.type = "KEYUP" /\ event'.key \in ControlKeys) =>
       /\ out' = <<>>
       /\ UNCHANGED <<notes, transpose, velocity, sustain,
                      current_layout>>]_vars

(***************************************************************************)
(* C13: once update_from has filled display_data, a handler that changes   *)
(* the notes of the Controller does not change what the notes field of     *)
(* display_data shows.                                                     *)
(***************************************************************************)
C13_SnapshotIsCopy ==
  [][(Step /\ display_data.layout # "") =>
       Deref(display_data.notes)' = Deref(display_data.notes)]_vars

(***************************************************************************)
(* C14: the key-down of a key with a base note in the active layout, the   *)
(* layout-cycle gesture apart, sends the one message                       *)
(* note-on(base + transpose, velocity) and adds that note to notes, which  *)
(* stays as it is if the note is in it already; in the fourths layout at   *)
(* transpose 0 and velocity 112, key a gives note-on(60, 112) and key s    *)
(* gives note-on(61, 112).                                                 *)
(***************************************************************************)
C14_NoteDown ==
  /\ []((current_layout = 0 /\ transpose = 0 /\ velocity = 112) =>
          /\ handle_keydown(Self, "K_a", KMOD_NONE)
               = [Self EXCEPT !.sent = << <<NOTE_ON, 60, 112>> >>,
                              !.notes = notes \cup {60}]
          /\ handle_keydown(Self, "K_s", KMOD_NONE)
               = [Self EXCEPT !.sent = << <<NOTE_ON, 61, 112>> >>,
                              !.notes = notes \cup {61}])
  /\ [][(/\ Step
         /\ event'.type = "KEYDOWN"
         /\ ~IsCycle'
         /\ event'.key \in DOMAIN ActiveMapping) =>
          LET n == ActiveMapping[event'.key] + transpose
          IN  /\ out' = << <<NOTE_ON, n, velocity>> >>
              /\ notes' = notes \cup {n}
              /\ n \in notes => notes' = notes]_vars

\* key a has been pressed in the fourths layout at transpose 0 and velocity
\* 112 while note 60 was on already
C14_Witness ==
  /\ IsKeyDown("K_a")
  /\ out = << <<NOTE_ON, 60, 112>> >>
  /\ \E r \in scenario : r.stage = "down" /\ r.key = "K_a" /\ 60 \in r.before
  /\ notes = {60}

(***************************************************************************)
(* C15: with sustain off, the key-up of a key that is down sends the       *)
(* note-off of the note the key has under the transpose and layout of the  *)
(* moment; if that is not the note its key-down switched on, that note     *)
(* stays in notes; a note leaves notes only in a ReleaseAll or in a key-up *)
(* that sends its note-off.                                                *)
(***************************************************************************)
C15_KeyUpUsesCurrent ==
  [][Step =>
       /\ \A p \in held :
            (event'.type = "KEYUP" /\ event'.key = p[1] /\ ~sustain) =>
              LET m == ActiveMapping[p[1]] + transpose
              IN  /\ out' = << <<NOTE_OFF, m, 0>> >>
                  /\ (p[2] # m /\ p[2] \in notes) => p[2] \in notes'
       /\ \A n \in notes \ notes' :
            \/ ReleaseAllRan'
            \/ event'.type = "KEYUP" /\ out' = << <<NOTE_OFF, n, 0>> >>]_vars

\* key n pressed at transpose -55 (note 5), transpose moved to -54, key n
\* released: note-off 6 is sent and note 5 stays
C15_Witness ==
  /\ IsKeyUp("K_n")
  /\ out = << <<NOTE_OFF, 6, 0>> >>
  /\ notes = {5}
  /\ held = {}
  /\ transpose = 0 - 54
  /\ nevents = MaxEvents - 3

(***************************************************************************)
(* C16: while sustain is on, a key-up sends nothing and changes no field   *)
(* of the Controller, and a note leaves notes only in a ReleaseAll (the    *)
(* sustain toggle going off, or escape).                                   *)
(***************************************************************************)
C16_KeyUpUnderSustain ==
  [][(Step /\ sustain) =>
       /\ event'.type = "KEYUP" =>
            /\ out' = <<>>
            /\ UNCHANGED <<notes, transpose, velocity, sustain,
                           current_layout>>
       /\ (notes \ notes' # {}) => ReleaseAllRan']_vars

\* a note key has been pressed and released under sustain and its note is
\* still on
C16_Witness ==
  /\ sustain
  /\ out = <<>>
  /\ \E r \in scenario : r.stage = "up" /\ r.sus /\ r.note \in notes

(***************************************************************************)
(* C17: with sustain off, the key-up of a key of the active layout whose   *)
(* note is not in notes sends the one note-off of that note and changes no *)
(* field of the Controller.                                                *)
(***************************************************************************)
C17_RedundantRelease ==
  [][(/\ Step
      /\ event'.type = "KEYUP"
      /\ ~sustain
      /\ event'.key \in DOMAIN ActiveMapping
      /\ ActiveMapping[event'.key] + transpose \notin notes) =>
       /\ out' = << <<NOTE_OFF, ActiveMapping[event'.key] + transpose, 0>> >>
       /\ UNCHANGED <<notes, transpose, velocity, sustain,
                      current_layout>>]_vars

\* key a has been released as the first event of the run, notes being empty
C17_Witness ==
  /\ IsKeyUp("K_a")
  /\ out = << <<NOTE_OFF, ActiveMapping["K_a"] + transpose, 0>> >>
  /\ notes = {}
  /\ nevents = MaxEvents - 1

(***************************************************************************)
(* C18: in a run without a change of transpose or layout and with sustain  *)
(* off throughout, notes is empty whenever no key that switched a note on  *)
(* is still down, also when keys of the same note were down together.      *)
(***************************************************************************)
C18_AllReleasedAllOff == (steady /\ held = {}) => notes = {}

\* keys a and n, both note 60 in the fourths layout, have been pressed and
\* released in four events
C18_Witness ==
  /\ steady
  /\ held = {}
  /\ pressed = {"K_a", "K_n"}
  /\ current_layout = 0
  /\ event.type = "KEYUP"
  /\ notes = {}
  /\ nevents = MaxEvents - 4

(***************************************************************************)
(* C19: a key-down that is neither escape nor the sustain toggle going off *)
(* removes no note from notes and sends no note-off.                       *)
(***************************************************************************)
C19_KeyDownKeepsNotes ==
  [][(Step /\ event'.type = "KEYDOWN" /\ ~ReleaseAllRan') =>
       /\ notes \subseteq notes'
       /\ \A i \in DOMAIN out' : out'[i][1] # NOTE_OFF]_vars

\* the sustain toggle has gone on while a note was on
C19_Witness ==
  IsKeyDown("K_TAB") /\ sustain /\ notes # {} /\ out = <<>>

(***************************************************************************)
(* C20: the escape key leaves sustain, transpose, velocity and             *)
(* current_layout as they are; after escape under sustain, sustain is on   *)
(* and the key-up that follows sends no note-off.                          *)
(***************************************************************************)
C20_EscapeKeepsSettings ==
  [][Step =>
       /\ IsKeyDown("K_ESCAPE")' =>
            UNCHANGED <<sustain, transpose, velocity, current_layout>>
       /\ (IsKeyDown("K_ESCAPE") /\ held # {} /\ event'.type = "KEYUP") =>
            (sustain' = sustain /\ (sustain => out' = <<>>))]_vars

\* escape has been pressed under sustain while a note key was down
C20_Witness ==
  IsKeyDown("K_ESCAPE") /\ sustain /\ held # {} /\ notes = {}

====
